---- MODULE Spec2Model ----
(***************************************************************************)
(* State-machine model of src/app.py: a Flask application with four        *)
(* handlers (home, upload, gallery, health) in front of one blob           *)
(* container.  Strings are sequences of characters; a character is a       *)
(* one-character string, or a "U+xxxx" token for a non-ASCII code point.   *)
(***************************************************************************)
EXTENDS Naturals, Sequences, FiniteSets, TLC

VARIABLES cc, STORAGE_ACCOUNT_URL, store, clock, req, resp,
          okLog, ok200, lastPut, begun, sanIn, sanOut

vars == <<cc, STORAGE_ACCOUNT_URL, store, clock, req, resp,
          okLog, ok200, lastPut, begun, sanIn, sanOut>>

(* ------------------------------ bounds --------------------------------- *)

\* accepted uploads (those that reach line 82) in one behaviour
MaxUploads == 2
\* request-handling threads that run handlers concurrently
NumThreads == 2
\* length of the strings the sanitizer is applied to in SpecSanitize
MaxLen == 3

(* ---------------------------- characters ------------------------------- *)

Digits == <<"0", "1", "2", "3", "4", "5", "6", "7", "8", "9">>

Upper == <<"A", "B", "C", "D", "E", "F", "G", "H", "I", "J", "K", "L", "M",
           "N", "O", "P", "Q", "R", "S", "T", "U", "V", "W", "X", "Y", "Z">>

Lower == <<"a", "b", "c", "d", "e", "f", "g", "h", "i", "j", "k", "l", "m",
           "n", "o", "p", "q", "r", "s", "t", "u", "v", "w", "x", "y", "z">>

\* The characters of the model in code-point order: Python compares strings
\* code point by code point.  U+00E9 is e-acute, U+65E5 a CJK ideograph.
Alphabet == <<" ", "-", ".", "/">> \o Digits \o <<":">> \o Upper
            \o <<"\\", "_">> \o Lower \o <<"U+00E9", "U+65E5">>

Range(s) == {s[i] : i \in 1..Len(s)}

Ord == [c \in Range(Alphabet) |-> CHOOSE i \in 1..Len(Alphabet) : Alphabet[i] = c]

\* str.__lt__
LexLess(a, b) ==
    \E i \in 1..(Len(b)) :
        /\ \A j \in 1..(i - 1) : j <= Len(a) /\ a[j] = b[j]
        /\ \/ i = Len(a) + 1
           \/ i <= Len(a) /\ Ord[a[i]] < Ord[b[i]]

\* str.lower(), one character
LowerChar(c) ==
    IF \E i \in 1..Len(Upper) : Upper[i] = c
    THEN Lower[CHOOSE i \in 1..Len(Upper) : Upper[i] = c]
    ELSE c

ToLower(s) == [i \in 1..Len(s) |-> LowerChar(s[i])]

\* str.startswith
StartsWith(s, p) == Len(p) <= Len(s) /\ SubSeq(s, 1, Len(p)) = p

RECURSIVE Join(_)
\* "".join of a sequence of strings
Join(parts) == IF parts = <<>> THEN <<>> ELSE Head(parts) \o Join(Tail(parts))

\* index of the last occurrence of c in s, 0 when absent (str.rfind + 1)
RFind(s, c) ==
    IF \E i \in 1..Len(s) : s[i] = c
    THEN CHOOSE i \in 1..Len(s) : s[i] = c /\ \A j \in (i + 1)..Len(s) : s[j] /= c
    ELSE 0

\* str.rstrip(chars)
RECURSIVE RStrip(_, _)
RStrip(s, chars) ==
    IF s /= <<>> /\ s[Len(s)] \in chars THEN RStrip(SubSeq(s, 1, Len(s) - 1), chars) ELSE s

\* str.lstrip(chars)
RECURSIVE LStrip(_, _)
LStrip(s, chars) ==
    IF s /= <<>> /\ s[1] \in chars THEN LStrip(Tail(s), chars) ELSE s

\* str.strip(chars)
Strip(s, chars) == LStrip(RStrip(s, chars), chars)

(* ------------------------ werkzeug.secure_filename --------------------- *)

\* the characters the pattern [A-Za-z0-9._-] (app.py) and werkzeug's
\* _filename_ascii_strip_re [^A-Za-z0-9_.-] let through
SafeChars == Range(Upper) \cup Range(Lower) \cup Range(Digits) \cup {".", "_", "-"}

\* unicodedata.normalize("NFKD", c).encode("ascii", "ignore"): an ASCII
\* character is kept, e-acute decomposes to e plus a dropped combining mark,
\* a character with no ASCII decomposition is dropped
AsciiFold(c) ==
    IF c = "U+00E9" THEN <<"e">>
    ELSE IF c = "U+65E5" THEN <<>>
    ELSE <<c>>

\* filename.replace(os.sep, " ") on a POSIX host (os.path.altsep is None)
ReplaceSep(s) == [i \in 1..Len(s) |-> IF s[i] = "/" THEN " " ELSE s[i]]

\* length of the first whitespace-free word of s
WordLen(s) ==
    IF \E i \in 1..Len(s) : s[i] = " "
    THEN (CHOOSE i \in 1..Len(s) : s[i] = " " /\ \A j \in 1..(i - 1) : s[j] /= " ") - 1
    ELSE Len(s)

RECURSIVE SplitJoin(_)
\* "_".join(s.split()): runs of whitespace become one "_", leading and
\* trailing whitespace is dropped
SplitJoin(s) ==
    LET t == LStrip(s, {" "})
        n == WordLen(t)
        rest == LStrip(SubSeq(t, n + 1, Len(t)), {" "})
    IN  IF t = <<>> THEN <<>>
        ELSE IF rest = <<>> THEN SubSeq(t, 1, n)
        ELSE SubSeq(t, 1, n) \o <<"_">> \o SplitJoin(rest)

\* re.sub(pattern, "", s) for a pattern matching one character outside keep
RemoveNotIn(s, keep) == SelectSeq(s, LAMBDA c : c \in keep)

\* re.sub(pattern, repl, s) for a pattern matching one character outside keep
ReplaceNotIn(s, keep, repl) == [i \in 1..Len(s) |-> IF s[i] \in keep THEN s[i] ELSE repl]

\* werkzeug.utils.secure_filename
secure_filename(filename) ==
    LET folded == Join([i \in 1..Len(filename) |-> AsciiFold(filename[i])])
        spaced == ReplaceSep(folded)
    IN  Strip(RemoveNotIn(SplitJoin(spaced), SafeChars), {".", "_"})

(* ------------------------------ helpers -------------------------------- *)

ALLOWED_EXT == { <<"p", "n", "g">>, <<"j", "p", "g">>, <<"j", "p", "e", "g">>,
                 <<"g", "i", "f">>, <<"b", "m", "p">>, <<"w", "e", "b", "p">>,
                 <<"t", "i", "f", "f">> }

ImagePrefix == <<"i", "m", "a", "g", "e", "/">>

\* bool(mt) and mt.startswith("image/")
_is_image_mt(mt) == mt /= <<>> /\ StartsWith(mt, ImagePrefix)

\* is_allowed_file letting every name through
_is_allowed_file_any(name) == TRUE

\* is_allowed_file comparing the suffix as written, without lower()
_is_allowed_file_nolower(name) ==
    /\ RFind(name, ".") > 0
    /\ SubSeq(name, RFind(name, ".") + 1, Len(name)) \in ALLOWED_EXT

\* "." in name and name.rsplit(".", 1)[1].lower() in ALLOWED_EXT
_is_allowed_file(name) ==
    /\ RFind(name, ".") > 0
    /\ ToLower(SubSeq(name, RFind(name, ".") + 1, Len(name))) \in ALLOWED_EXT

DefaultName == <<"i", "m", "a", "g", "e">>

\* secure_filename(name or "image"), then every character outside
\* [A-Za-z0-9._-] replaced by "_"
_sanitize(name) ==
    ReplaceNotIn(secure_filename(IF name = <<>> THEN DefaultName ELSE name), SafeChars, "_")

\* the UTC instants datetime.now(timezone.utc) returns in the model, in
\* chronological order; they straddle a change of width of the seconds and
\* of the month
Times == << [Y |-> 2024, m |-> 9, d |-> 30, H |-> 23, M |-> 59, S |-> 9],
            [Y |-> 2024, m |-> 9, d |-> 30, H |-> 23, M |-> 59, S |-> 10],
            [Y |-> 2024, m |-> 10, d |-> 1, H |-> 0, M |-> 0, S |-> 0] >>

RECURSIVE Pad(_, _)
\* the zero-padded decimal of n in w digits (strftime's %Y, %m, %d, %H, %M, %S)
Pad(n, w) == IF w = 0 THEN <<>> ELSE Pad(n \div 10, w - 1) \o <<Digits[(n % 10) + 1]>>

\* strftime("%Y%m%dT%H%M%S")
strftime(dt) ==
    Pad(dt.Y, 4) \o Pad(dt.m, 2) \o Pad(dt.d, 2) \o <<"T">>
    \o Pad(dt.H, 2) \o Pad(dt.M, 2) \o Pad(dt.S, 2)

\* _ts() when the clock reads Times[now]
_ts(now) == strftime(Times[now])

\* f"{_ts()}-{_sanitize(f.filename)}"
BlobName(now, filename) == _ts(now) \o <<"-">> \o _sanitize(filename)

\* IMAGES_CONTAINER of the environment
CONTAINER_NAME == <<"i", "m", "g">>

\* the module-level cc of a process started without a connection string
None == [client |-> FALSE]

\* the module-level cc of a process started with one; url is cc.url
Client(url) == [client |-> TRUE, url |-> url]

\* f"{cc.url}/{blob_name}" when cc has a url, else the account URL without
\* its trailing slashes, the container name and the blob name
_blob_url(ccv, account_url, blob_name) ==
    IF ccv.client /\ ccv.url /= <<>>
    THEN ccv.url \o <<"/">> \o blob_name
    ELSE RStrip(account_url, {"/"}) \o <<"/">> \o CONTAINER_NAME \o <<"/">> \o blob_name

\* posixpath.splitext(p)[1]: the last dot of the last path segment starts
\* the extension unless only dots precede it in that segment
SplitExt(p) ==
    LET sepIndex == RFind(p, "/")
        dotIndex == RFind(p, ".")
    IN  IF dotIndex > sepIndex
           /\ \E i \in (sepIndex + 1)..(dotIndex - 1) : p[i] /= "."
        THEN SubSeq(p, dotIndex, Len(p))
        ELSE <<>>

\* mimetypes.types_map restricted to the extensions of ALLOWED_EXT
TypesMap ==
    [ext \in ALLOWED_EXT |->
        ImagePrefix \o (IF ext = <<"j", "p", "g">> THEN <<"j", "p", "e", "g">> ELSE ext)]

\* mimetypes.guess_type(name)[0]; <<>> stands for None
guess_type(name) ==
    LET ext == ToLower(SplitExt(name))
    IN  IF ext /= <<>> /\ Tail(ext) \in ALLOWED_EXT THEN TypesMap[Tail(ext)] ELSE <<>>

OctetStream == <<"a", "p", "p", "l", "i", "c", "a", "t", "i", "o", "n", "/",
                 "o", "c", "t", "e", "t", "-", "s", "t", "r", "e", "a", "m">>

\* f.mimetype or mimetypes.guess_type(f.filename)[0] or "application/octet-stream"
ResolveMime(f) ==
    IF f.mimetype /= <<>> THEN f.mimetype
    ELSE IF guess_type(f.filename) /= <<>> THEN guess_type(f.filename)
    ELSE OctetStream

RECURSIVE InsertDesc(_, _)
\* x put into a descending sequence, before the first element below it
InsertDesc(x, s) ==
    IF s = <<>> THEN <<x>>
    ELSE IF LexLess(Head(s), x) THEN <<x>> \o s
    ELSE <<Head(s)>> \o InsertDesc(x, Tail(s))

RECURSIVE SortForward(_)
\* urls.sort() without reverse=True
SortForward(s) ==
    IF s = <<>> THEN <<>>
    ELSE LET r == SortForward(Tail(s))
             below == SelectSeq(r, LAMBDA y : LexLess(y, Head(s)))
             rest == SelectSeq(r, LAMBDA y : ~LexLess(y, Head(s)))
         IN  below \o <<Head(s)>> \o rest

RECURSIVE SortReverse(_)
\* urls.sort(reverse=True)
SortReverse(s) == IF s = <<>> THEN <<>> ELSE InsertDesc(Head(s), SortReverse(Tail(s)))

\* the orders in which cc.list_blobs() may yield the names of the container
Listings(keys) ==
    {l \in [1..Cardinality(keys) -> keys] : \A i, j \in DOMAIN l : i /= j => l[i] /= l[j]}

\* [_blob_url(b.name) for b in cc.list_blobs()], then urls.sort(reverse=True)
SortedUrls(ccv, account_url, listing) ==
    SortReverse([i \in 1..Len(listing) |-> _blob_url(ccv, account_url, listing[i])])

\* overwrite left at the SDK's default
UploadOverwriteDefault == FALSE

\* overwrite=True of the upload_blob call
UploadOverwrite == TRUE

(* ------------------------------ the store ------------------------------ *)

\* what the storage service does with one call: it serves it, it cannot be
\* reached (StoreUnavailable), or it fails it otherwise (StoreOperationFailed)
Outcomes == {"ok", "StoreUnavailable", "StoreOperationFailed"}

\* an upload_blob that replaces the container's content by the one blob
upload_blob_replacing(st, name, data, overwrite, content_type, outcome) ==
    IF outcome /= "ok" THEN [error |-> outcome, store |-> st]
    ELSE [error |-> "",
          store |-> (name :> [data |-> data, content_type |-> content_type])]

\* cc.upload_blob(name, data, overwrite, content_settings): error is the
\* exception raised ("" for none), store the container afterwards
upload_blob(st, name, data, overwrite, content_type, outcome) ==
    IF outcome /= "ok" THEN [error |-> outcome, store |-> st]
    ELSE IF name \in DOMAIN st /\ ~overwrite
    THEN [error |-> "ResourceExistsError", store |-> st]
    ELSE [error |-> "",
          store |-> (name :> [data |-> data, content_type |-> content_type]) @@ st]

(* ------------------------------ requests ------------------------------- *)

Threads == 1..NumThreads

Idle == [pc |-> "idle"]

\* request.files.get("file") of a request without that field
NoFile == [present |-> FALSE]

File(filename, mimetype, data) ==
    [present |-> TRUE, filename |-> filename, mimetype |-> mimetype, data |-> data]

ImagePng == ImagePrefix \o <<"p", "n", "g">>

TextPlain == <<"t", "e", "x", "t", "/", "p", "l", "a", "i", "n">>

\* the multipart "file" fields clients send: filename, Content-Type of the
\* part as werkzeug's FileStorage.mimetype gives it (<<>> when absent), body
Files ==
    { File(<<"a", ".", "P", "N", "G">>, <<>>, "d1"),
      File(<<".", "p", "n", "g">>, ImagePng, "d1"),
      File(<<"U+65E5", ".", "p", "n", "g">>, ImagePng, "d2"),
      File(<<".", "p", "n", "g">>, <<>>, "d1"),
      File(<<"a", ".", "p", "n", "g">>, TextPlain, "d1"),
      File(<<"a", ".", "t", "x", "t">>, TextPlain, "d1"),
      File(<<"U+65E5">>, ImagePng, "d1"),
      File(<<>>, ImagePng, "d1") }

\* bool(f) of werkzeug's FileStorage is bool(f.filename)
Truthy(f) == f.present /\ f.filename /= <<>>

Reject(status, error) == [pass |-> FALSE, status |-> status, error |-> error]

\* lines 67-80 of upload: the first failing check, or pass with the content type
UploadCheck(ccv, f) ==
    IF ~ccv.client THEN Reject(503, "Storage not configured")
    ELSE IF ~Truthy(f) THEN Reject(400, "missing 'file'")
    ELSE IF f.filename = <<>> THEN Reject(400, "empty filename")
    ELSE IF ~_is_allowed_file(f.filename)
    THEN Reject(400, "invalid file type (must be an image)")
    ELSE IF ~_is_image_mt(ResolveMime(f)) THEN Reject(415, "not an image")
    ELSE [pass |-> TRUE, mt |-> ResolveMime(f)]

UploadResponse(status, f, now, url, calls) ==
    [handler |-> "upload", status |-> status, ok |-> (status = 200),
     f |-> f, now |-> now, url |-> url, calls |-> calls]

\* the URLs of the uploads answered 200 so far
OkUrls == {u.url : u \in okLog}

\* an upload that writes the blob before it checks the content type
UploadBeginPutFirst(t, f) ==
    /\ req[t] = Idle
    /\ LET chk == UploadCheck(cc, f)
       IN  IF ~chk.pass /\ chk.status = 415
           THEN LET name == BlobName(clock, f.filename)
                    put == upload_blob(store, name, f.data, UploadOverwrite,
                                       ResolveMime(f), "ok")
                IN  /\ store' = put.store
                    /\ resp' = UploadResponse(415, f, clock, <<>>,
                                   <<[op |-> "put", key |-> name, outcome |-> "ok",
                                      error |-> ""]>>)
                    /\ UNCHANGED <<req, begun>>
           ELSE IF ~chk.pass
           THEN /\ resp' = UploadResponse(chk.status, f, 0, <<>>, <<>>)
                /\ UNCHANGED <<req, begun, store>>
           ELSE /\ begun < MaxUploads
                /\ begun' = begun + 1
                /\ req' = [req EXCEPT ![t] =
                       [pc |-> "put", f |-> f, mt |-> chk.mt, now |-> clock,
                        blob_name |-> BlobName(clock, f.filename), data |-> f.data]]
                /\ UNCHANGED <<resp, store>>
    /\ UNCHANGED <<cc, STORAGE_ACCOUNT_URL, clock, okLog, ok200, lastPut, sanIn, sanOut>>

\* upload, lines 65-84: a request is validated; a rejected one is answered at
\* once, an accepted one has its blob name and payload and is about to put
UploadBegin(t, f) ==
    /\ req[t] = Idle
    /\ LET chk == UploadCheck(cc, f)
       IN  IF ~chk.pass
           THEN /\ resp' = UploadResponse(chk.status, f, 0, <<>>, <<>>)
                /\ UNCHANGED <<req, begun>>
           ELSE /\ begun < MaxUploads
                /\ begun' = begun + 1
                /\ req' = [req EXCEPT ![t] =
                       [pc |-> "put", f |-> f, mt |-> chk.mt, now |-> clock,
                        blob_name |-> BlobName(clock, f.filename), data |-> f.data]]
                /\ UNCHANGED resp
    /\ UNCHANGED <<cc, STORAGE_ACCOUNT_URL, store, clock, okLog, ok200, lastPut,
                   sanIn, sanOut>>

\* upload, lines 86-91 and 97-99: the single upload_blob call; an exception
\* is answered 500
UploadPut(t) ==
    /\ req[t].pc = "put"
    /\ \E outcome \in Outcomes :
         LET r == req[t]
             put == upload_blob(store, r.blob_name, r.data, UploadOverwrite, r.mt, outcome)
             call == [op |-> "put", key |-> r.blob_name, outcome |-> outcome,
                      error |-> put.error]
         IN  /\ store' = put.store
             /\ IF put.error = ""
                THEN /\ req' = [req EXCEPT ![t] = [r EXCEPT !.pc = "uploaded"]
                                                  @@ [calls |-> <<call>>]]
                     /\ lastPut' = (r.blob_name :> r.data) @@ lastPut
                     /\ UNCHANGED resp
                ELSE /\ req' = [req EXCEPT ![t] = Idle]
                     /\ resp' = UploadResponse(500, r.f, r.now, <<>>, <<call>>)
                     /\ UNCHANGED lastPut
    /\ UNCHANGED <<cc, STORAGE_ACCOUNT_URL, clock, okLog, ok200, begun, sanIn, sanOut>>

\* upload, lines 93-95: the URL of the blob is computed and answered 200
UploadRespond(t) ==
    /\ req[t].pc = "uploaded"
    /\ LET r == req[t]
           url == _blob_url(cc, STORAGE_ACCOUNT_URL, r.blob_name)
       IN  /\ resp' = UploadResponse(200, r.f, r.now, url, r.calls)
           /\ okLog' = okLog \cup {[now |-> r.now, name |-> _sanitize(r.f.filename),
                                    key |-> r.blob_name, url |-> url, f |-> r.f]}
    /\ ok200' = ok200 + 1
    /\ req' = [req EXCEPT ![t] = Idle]
    /\ UNCHANGED <<cc, STORAGE_ACCOUNT_URL, store, clock, lastPut, begun, sanIn, sanOut>>

ListCall(outcome, keys) == [op |-> "list", outcome |-> outcome, keys |-> keys]

GalleryResponse(status, urls, calls, seen) ==
    [handler |-> "gallery", status |-> status, ok |-> (status = 200),
     gallery |-> urls, calls |-> calls, seen |-> seen]

\* gallery, lines 105-108 and 110-111: 503 without a client; else the blobs
\* are listed and their URLs sorted, an exception is answered 500
GalleryList(t) ==
    /\ req[t] = Idle
    /\ IF ~cc.client
       THEN /\ resp' = GalleryResponse(503, <<>>, <<>>, OkUrls)
            /\ UNCHANGED req
       ELSE \E outcome \in Outcomes :
              IF outcome /= "ok"
              THEN /\ resp' = GalleryResponse(500, <<>>, <<ListCall(outcome, {})>>, OkUrls)
                   /\ UNCHANGED req
              ELSE \E listing \in Listings(DOMAIN store) :
                     /\ req' = [req EXCEPT ![t] =
                            [pc |-> "gallery_listed",
                             urls |-> SortedUrls(cc, STORAGE_ACCOUNT_URL, listing),
                             calls |-> <<ListCall(outcome, DOMAIN store)>>,
                             seen |-> OkUrls]]
                     /\ UNCHANGED resp
    /\ UNCHANGED <<cc, STORAGE_ACCOUNT_URL, store, clock, okLog, ok200, lastPut, begun,
                   sanIn, sanOut>>

\* gallery, line 109: the sorted URLs are answered 200
GalleryRespond(t) ==
    /\ req[t].pc = "gallery_listed"
    /\ resp' = GalleryResponse(200, req[t].urls, req[t].calls, req[t].seen)
    /\ req' = [req EXCEPT ![t] = Idle]
    /\ UNCHANGED <<cc, STORAGE_ACCOUNT_URL, store, clock, okLog, ok200, lastPut, begun,
                   sanIn, sanOut>>

\* a home that lets the listing's exception through
HomeResponseRaising(urls, calls) ==
    [handler |-> "home",
     status |-> IF calls /= <<>> /\ calls[1].outcome /= "ok" THEN 500 ELSE 200,
     gallery |-> urls, calls |-> calls]

\* render_template("index.html", gallery=urls)
HomeResponse(urls, calls) ==
    [handler |-> "home", status |-> 200, gallery |-> urls, calls |-> calls]

\* home, lines 53-60: urls stays [] without a client or when the listing
\* raises; else the blobs are listed and their URLs sorted
HomeList(t) ==
    /\ req[t] = Idle
    /\ IF ~cc.client
       THEN req' = [req EXCEPT ![t] = [pc |-> "home_listed", urls |-> <<>>, calls |-> <<>>]]
       ELSE \E outcome \in Outcomes :
              IF outcome /= "ok"
              THEN req' = [req EXCEPT ![t] =
                       [pc |-> "home_listed", urls |-> <<>>,
                        calls |-> <<ListCall(outcome, {})>>]]
              ELSE \E listing \in Listings(DOMAIN store) :
                     req' = [req EXCEPT ![t] =
                         [pc |-> "home_listed",
                          urls |-> SortedUrls(cc, STORAGE_ACCOUNT_URL, listing),
                          calls |-> <<ListCall(outcome, DOMAIN store)>>]]
    /\ UNCHANGED <<cc, STORAGE_ACCOUNT_URL, store, clock, resp, okLog, ok200, lastPut,
                   begun, sanIn, sanOut>>

\* home, line 61: the page is rendered
HomeRender(t) ==
    /\ req[t].pc = "home_listed"
    /\ resp' = HomeResponse(req[t].urls, req[t].calls)
    /\ req' = [req EXCEPT ![t] = Idle]
    /\ UNCHANGED <<cc, STORAGE_ACCOUNT_URL, store, clock, okLog, ok200, lastPut, begun,
                   sanIn, sanOut>>

\* a health that does not look at the outcome of the properties call
HealthResultUnchecked(ccv, outcome) ==
    IF ~ccv.client THEN [status |-> 503, body |-> "UNHEALTHY"]
    ELSE [status |-> 200, body |-> "OK"]

\* lines 117-124 of health: the status and the body's status field
HealthResult(ccv, outcome) ==
    IF ~ccv.client THEN [status |-> 503, body |-> "UNHEALTHY"]
    ELSE IF outcome = "ok" THEN [status |-> 200, body |-> "OK"]
    ELSE [status |-> 503, body |-> "DEGRADED"]

\* health: without a client the answer is given at once; else
\* cc.get_container_properties() is called and decides
Health(t) ==
    /\ req[t] = Idle
    /\ \E outcome \in Outcomes :
         LET h == HealthResult(cc, outcome)
         IN  resp' = [handler |-> "health", status |-> h.status, body |-> h.body,
                      calls |-> IF cc.client
                                THEN <<[op |-> "properties", outcome |-> outcome]>>
                                ELSE <<>>]
    /\ UNCHANGED <<cc, STORAGE_ACCOUNT_URL, store, clock, req, okLog, ok200, lastPut,
                   begun, sanIn, sanOut>>

\* a second of UTC time passes
Tick ==
    /\ clock < Len(Times)
    /\ clock' = clock + 1
    /\ UNCHANGED <<cc, STORAGE_ACCOUNT_URL, store, req, resp, okLog, ok200, lastPut,
                   begun, sanIn, sanOut>>

(* --------------------------- specifications ---------------------------- *)

ClientUrl == <<"h", "/", "i", "m", "g">>

\* the configurations a process starts with (lines 11-20): no connection
\* string; a client that reports its URL; a client without one, whose URLs
\* are composed from an account URL ending in slashes
Configs ==
    { [cc |-> None, account |-> <<>>],
      [cc |-> Client(ClientUrl), account |-> <<"h">>],
      [cc |-> Client(<<>>), account |-> <<"g", "/", "/">>] }

NoResponse == [handler |-> "none"]

Init ==
    /\ \E c \in Configs : cc = c.cc /\ STORAGE_ACCOUNT_URL = c.account
    /\ store = <<>>
    /\ clock = 1
    /\ req = [t \in Threads |-> Idle]
    /\ resp = NoResponse
    /\ okLog = {}
    /\ ok200 = 0
    /\ lastPut = <<>>
    /\ begun = 0
    /\ sanIn = <<>>
    /\ sanOut = [done |-> FALSE]

Next ==
    \/ \E t \in Threads : \E f \in Files \cup {NoFile} : UploadBegin(t, f)
    \/ \E t \in Threads : UploadPut(t)
    \/ \E t \in Threads : UploadRespond(t)
    \/ \E t \in Threads : GalleryList(t)
    \/ \E t \in Threads : GalleryRespond(t)
    \/ \E t \in Threads : HomeList(t)
    \/ \E t \in Threads : HomeRender(t)
    \/ \E t \in Threads : Health(t)
    \/ Tick

Spec == Init /\ [][Next]_vars

\* the strings _sanitize is applied to on its own
SanAlphabet == {"a", ".", "/", "\\", " ", "_", "-", "U+00E9", "U+65E5"}

SanInputs == UNION {[1..n -> SanAlphabet] : n \in 0..MaxLen}

InitSanitize ==
    /\ cc = None /\ STORAGE_ACCOUNT_URL = <<>>
    /\ store = <<>>
    /\ clock = 1
    /\ req = [t \in Threads |-> Idle]
    /\ resp = NoResponse
    /\ okLog = {}
    /\ ok200 = 0
    /\ lastPut = <<>>
    /\ begun = 0
    /\ sanIn \in SanInputs
    /\ sanOut = [done |-> FALSE]

\* one call of _sanitize(sanIn)
Sanitize ==
    /\ ~sanOut.done
    /\ sanOut' = [done |-> TRUE, out |-> _sanitize(sanIn)]
    /\ UNCHANGED <<cc, STORAGE_ACCOUNT_URL, store, clock, req, resp, okLog, ok200,
                   lastPut, begun, sanIn>>

NextSanitize == Sanitize

SpecSanitize == InitSanitize /\ [][NextSanitize]_vars

(* ------------------------------- claims -------------------------------- *)

\* the position of x in s
Index(s, x) == CHOOSE i \in 1..Len(s) : s[i] = x

\* the URL a key is listed under
UrlOf(k) == _blob_url(cc, STORAGE_ACCOUNT_URL, k)

\* s lists the URLs of keys, one each, in descending order of key
ListsDescending(s, keys) ==
    /\ Len(s) = Cardinality(keys)
    /\ \A k \in keys : UrlOf(k) \in Range(s)
    /\ \A k1, k2 \in keys :
         LexLess(k1, k2) => Index(s, UrlOf(k2)) < Index(s, UrlOf(k1))

\* C1: an upload answered 503, 400 or 415 has issued no store call, and an
\* upload answered 200 has issued exactly one, a put for the key
\* <timestamp>-<sanitized filename>, for a request that passes every check.
C1_RejectedNoPutAcceptedOnePut ==
    resp.handler = "upload" =>
        /\ resp.status \in {503, 400, 415} => resp.calls = <<>>
        /\ resp.status = 200 =>
             /\ Len(resp.calls) = 1
             /\ resp.calls[1].op = "put"
             /\ resp.calls[1].key
                  = strftime(Times[resp.now]) \o <<"-">> \o _sanitize(resp.f.filename)
             /\ resp.calls[1].key \in DOMAIN store
             /\ UploadCheck(cc, resp.f).pass

\* an accepted upload whose stored name differs from the filename sent
C1_Witness ==
    /\ resp.handler = "upload"
    /\ resp.status = 200
    /\ _sanitize(resp.f.filename) /= resp.f.filename

\* C2: the status of an upload response is that of the first failing check:
\* 503 without a client, 400 without a file, 400 for an empty filename, 400
\* for a filename without "." or with a suffix outside the allow-list, 415
\* for a resolved content type not starting with "image/"; past the checks,
\* 200 with ok and a url when the put succeeds and 500 when it raises.
C2_StatusByFirstFailingCheck ==
    resp.handler = "upload" =>
        LET f == resp.f
            fn == f.filename
        IN  IF ~cc.client THEN resp.status = 503
            ELSE IF ~f.present THEN resp.status = 400
            ELSE IF fn = <<>> THEN resp.status = 400
            ELSE IF \/ "." \notin Range(fn)
                    \/ ToLower(SubSeq(fn, RFind(fn, ".") + 1, Len(fn))) \notin ALLOWED_EXT
            THEN resp.status = 400
            ELSE IF ~StartsWith(IF f.mimetype /= <<>> THEN f.mimetype
                                ELSE IF guess_type(fn) /= <<>> THEN guess_type(fn)
                                ELSE OctetStream, ImagePrefix)
            THEN resp.status = 415
            ELSE /\ Len(resp.calls) = 1
                 /\ IF resp.calls[1].error = ""
                    THEN resp.status = 200 /\ resp.ok /\ resp.url /= <<>>
                    ELSE resp.status = 500 /\ ~resp.ok

\* an upload with an allowed extension refused for its content type
C2_Witness ==
    /\ resp.handler = "upload"
    /\ resp.status = 415
    /\ _is_allowed_file(resp.f.filename)

\* C3 as stated: every gallery response 200 contains the URL of every upload
\* answered 200 before it.
C3_EveryLaterGalleryResponse ==
    (resp.handler = "gallery" /\ resp.status = 200) => OkUrls \subseteq Range(resp.gallery)

\* C3, amended: a gallery response 200 contains the URL of every upload that
\* was answered 200 before the gallery request listed the container.
C3_GalleryListedAfterUpload ==
    (resp.handler = "gallery" /\ resp.status = 200) => resp.seen \subseteq Range(resp.gallery)

\* a gallery response 200 for a listing made after two uploads were answered
C3_Witness ==
    /\ resp.handler = "gallery"
    /\ resp.status = 200
    /\ Cardinality(resp.seen) = 2

\* C4: a gallery response 200 lists one URL for each object the container
\* held when it was listed, the URL of a greater key before that of a lesser.
C4_GalleryDescendingByKey ==
    (resp.handler = "gallery" /\ resp.status = 200) =>
        ListsDescending(resp.gallery, resp.calls[1].keys)

\* a gallery response 200 listing two objects
C4_Witness ==
    /\ resp.handler = "gallery"
    /\ resp.status = 200
    /\ Cardinality(resp.calls[1].keys) = 2

\* C5: whatever its input, the sanitizer returns a non-empty string of
\* characters in [A-Za-z0-9._-].
C5_SanitizerNonEmptySafe ==
    sanOut.done => sanOut.out /= <<>> /\ Range(sanOut.out) \subseteq SafeChars

\* C6: uploads answered 200 for the same second and sanitized name have the
\* same key and URL; the container holds under each key the payload of the
\* last put applied to it; a put the store serves is answered 200 whether or
\* not the key exists; uploads of an earlier second have the lesser key.
C6_SameSecondOverwritesKeysSortByTime ==
    /\ \A u1, u2 \in okLog :
         /\ (u1.now = u2.now /\ u1.name = u2.name) => (u1.key = u2.key /\ u1.url = u2.url)
         /\ u1.now < u2.now => LexLess(u1.key, u2.key)
    /\ \A u \in okLog : u.key \in DOMAIN store
    /\ \A k \in DOMAIN store : store[k].data = lastPut[k]
    /\ (resp.handler = "upload" /\ resp.calls /= <<>> /\ resp.calls[1].outcome = "ok")
         => resp.status = 200

\* two uploads answered 200 for one key with different payloads
C6_Witness ==
    \E u1, u2 \in okLog : u1.key = u2.key /\ u1.f.data /= u2.f.data

\* C7: an upload or a gallery request whose store call cannot reach the
\* store is answered 503, and 500 answers only other store failures.
C7_UnreachableStoreIs503 ==
    (resp.handler \in {"upload", "gallery"} /\ resp.calls /= <<>>) =>
        /\ resp.calls[1].outcome = "StoreUnavailable" => resp.status = 503
        /\ resp.status = 500 => resp.calls[1].outcome = "StoreOperationFailed"

\* C8: health answers 200 "OK" exactly when there is a client and the
\* properties call succeeds, 503 "UNHEALTHY" without a client and without
\* any store call, 503 "DEGRADED" when the call fails; it issues no put.
C8_HealthStatus ==
    resp.handler = "health" =>
        LET reached == resp.calls /= <<>> /\ resp.calls[1].outcome = "ok"
        IN  /\ (resp.status = 200 /\ resp.body = "OK") <=> (cc.client /\ reached)
            /\ ~cc.client => resp.status = 503 /\ resp.body = "UNHEALTHY" /\ resp.calls = <<>>
            /\ (cc.client /\ ~reached) => resp.status = 503 /\ resp.body = "DEGRADED"
            /\ \A i \in DOMAIN resp.calls : resp.calls[i].op = "properties"

\* a health response for a client whose properties call failed
C8_Witness ==
    /\ resp.handler = "health"
    /\ cc.client
    /\ resp.calls[1].outcome = "StoreUnavailable"

\* C9: home always answers 200; its gallery is empty without a client or
\* when the listing fails, and else the URLs of the listed objects in
\* descending order; it issues no put.
C9_HomeAlwaysRenders ==
    resp.handler = "home" =>
        /\ resp.status = 200
        /\ (~cc.client \/ (resp.calls /= <<>> /\ resp.calls[1].outcome /= "ok"))
             => resp.gallery = <<>>
        /\ (resp.calls /= <<>> /\ resp.calls[1].outcome = "ok")
             => ListsDescending(resp.gallery, resp.calls[1].keys)
        /\ \A i \in DOMAIN resp.calls : resp.calls[i].op = "list"

\* a home response after a failed listing of a non-empty container
C9_Witness ==
    /\ resp.handler = "home"
    /\ resp.calls /= <<>>
    /\ resp.calls[1].outcome /= "ok"
    /\ DOMAIN store /= {}

\* k is 8 digits, "T", 6 digits, "-" and a non-empty name of safe characters
WellFormedKey(k) ==
    /\ Len(k) > 16
    /\ \A i \in (1..8) \cup (10..15) : k[i] \in Range(Digits)
    /\ k[9] = "T"
    /\ k[16] = "-"
    /\ \A i \in 17..Len(k) : k[i] \in SafeChars

====
